---- MODULE Spec2Model ----
(***************************************************************************)
(* Shape-level model of models/networks.py: the 3D convolution block, the  *)
(* residual blocks, the style and content encoders, the decoder and the    *)
(* multi-scale discriminator.  A tensor is modelled by its shape           *)
(* <<B, C, D, H, W>>; a failed call is modelled by a one-element tuple      *)
(* naming the error.  Constructors build the layer lists the code builds,  *)
(* forward passes apply them layer by layer.                                *)
(***************************************************************************)
EXTENDS Integers, Sequences, FiniteSets, TLC

VARIABLES pc, comp, args, model, x, x0, idx, error, outputs, stdout, events,
          chain

vars == <<pc, comp, args, model, x, x0, idx, error, outputs, stdout, events,
          chain>>

(***************************************************************************)
(* Bounds of the model.                                                    *)
(***************************************************************************)
MaxSize == 5
MaxBatch == 2
MaxBlocks == 2
MaxDown == 4
MaxUp == 2
MaxLayers == 4
MaxScales == 3
MaxStride == 2
MaxPad == 3

(* Spatial sizes of the inputs: the small ones, and the 16 and 48 voxel   *)
(* cubes (48 is the size the script at the end of the file uses).          *)
Sizes == (1..MaxSize) \cup {16, 48}
ChannelCounts == {4, 14}
BottomDims == {2, 32}
KernelSizes == {3, 4, 7}

(* Requested (norm, activation, pad_type) strings of a single block.       *)
Flavours ==
    { <<"none", "relu", "replicate">>,
      <<"in", "lrelu", "reflect">>,
      <<"bn", "none", "constant">>,
      <<"adain", "tanh", "replicate">>,
      <<"ln", "swish", "circular">>,
      <<"in", "prelu", "mirror">> }

(* Inputs of a forward pass.                                               *)
InputShapes ==
    { <<b, c, d, h, d>> : b \in 1..MaxBatch, c \in ChannelCounts,
                          d \in Sizes, h \in Sizes }

(***************************************************************************)
(* Defaults of the constructors.                                           *)
(***************************************************************************)
DefaultPadding == 3
DefaultInChannels == 14
DefaultStyleDim == 8
DefaultOutChannels == 14
(* bottom_dim of the discriminator parameters of the script.               *)
DiscriminatorBottomDim == 32

(***************************************************************************)
(* Tensors and errors.                                                     *)
(***************************************************************************)
IsTensor(t) == Len(t) = 5
IsErr(t) == Len(t) = 1
Spatial(t) == <<t[3], t[4], t[5]>>

RECURSIVE Pow2(_)
Pow2(n) == IF n <= 0 THEN 1 ELSE 2 * Pow2(n - 1)

(***************************************************************************)
(* Library operators, at the level of shapes.                              *)
(***************************************************************************)
PadModes == {"constant", "reflect", "replicate", "circular"}

(* F.pad(x, pad, mode): pad[1], pad[2] go on the last axis, pad[3], pad[4] *)
(* on the one before it, pad[5], pad[6] on the third from last.            *)
F_pad(t, pad, mode) ==
    IF mode \notin PadModes THEN <<"NotImplementedError">>
    ELSE IF mode = "reflect" /\ (pad[1] >= t[5] \/ pad[2] >= t[5] \/
                                 pad[3] >= t[4] \/ pad[4] >= t[4] \/
                                 pad[5] >= t[3] \/ pad[6] >= t[3])
         THEN <<"PaddingTooLarge">>
    ELSE IF mode = "circular" /\ (pad[1] > t[5] \/ pad[2] > t[5] \/
                                  pad[3] > t[4] \/ pad[4] > t[4] \/
                                  pad[5] > t[3] \/ pad[6] > t[3])
         THEN <<"PaddingTooLarge">>
    ELSE <<t[1], t[2], t[3] + pad[5] + pad[6], t[4] + pad[3] + pad[4],
           t[5] + pad[1] + pad[2]>>

(* nn.Conv3d(in_channels, out_channels, kernel_size, stride, padding).     *)
Conv3d(in_channels, out_channels, kernel_size, stride, padding) ==
    [kind |-> "Conv3d", in_channels |-> in_channels,
     out_channels |-> out_channels, kernel_size |-> kernel_size,
     stride |-> stride, padding |-> padding]

ConvOut(n, c) == ((n + 2 * c.padding - c.kernel_size) \div c.stride) + 1

Conv3d_forward(c, t) ==
    IF t[2] # c.in_channels THEN <<"ChannelMismatch">>
    ELSE IF \E a \in 3..5 : t[a] + 2 * c.padding < c.kernel_size
         THEN <<"KernelTooLarge">>
    ELSE <<t[1], c.out_channels, ConvOut(t[3], c), ConvOut(t[4], c),
           ConvOut(t[5], c)>>

(* nn.AdaptiveAvgPool3d(output_size).                                      *)
AdaptiveAvgPool3d(output_size) ==
    [kind |-> "AdaptiveAvgPool3d", output_size |-> output_size]

AdaptiveAvgPool3d_forward(l, t) ==
    <<t[1], t[2], l.output_size, l.output_size, l.output_size>>

(* nn.Upsample(scale_factor).                                              *)
Upsample(scale_factor) ==
    [kind |-> "Upsample", scale_factor |-> scale_factor]

Upsample_forward(l, t) ==
    <<t[1], t[2], t[3] * l.scale_factor, t[4] * l.scale_factor,
      t[5] * l.scale_factor>>

(* nn.AvgPool3d(kernel_size, stride, padding, count_include_pad=False).    *)
AvgPool3d(kernel_size, stride, padding) ==
    [kind |-> "AvgPool3d", kernel_size |-> kernel_size, stride |-> stride,
     padding |-> padding]

PoolOut(n, l) == ((n + 2 * l.padding - l.kernel_size) \div l.stride) + 1

AvgPool3d_forward(l, t) ==
    IF \E a \in 3..5 : t[a] + 2 * l.padding < l.kernel_size
    THEN <<"KernelTooLarge">>
    ELSE <<t[1], t[2], PoolOut(t[3], l), PoolOut(t[4], l), PoolOut(t[5], l)>>

(* a + b with broadcasting: on every axis the sizes agree or one is 1.     *)
Max(a, b) == IF a >= b THEN a ELSE b

Add(a, b) ==
    IF \A i \in 1..5 : a[i] = b[i] \/ a[i] = 1 \/ b[i] = 1
    THEN <<Max(a[1], b[1]), Max(a[2], b[2]), Max(a[3], b[3]),
           Max(a[4], b[4]), Max(a[5], b[5])>>
    ELSE <<"ShapeMismatch">>

(***************************************************************************)
(* Conv_3d_Block                                                           *)
(***************************************************************************)
SelectActivation(activation) ==
    IF activation = "relu" THEN "ReLU"
    ELSE IF activation = "lrelu" THEN "LeakyReLU"
    ELSE IF activation = "prelu" THEN "PReLU"
    ELSE IF activation = "selu" THEN "SELU"
    ELSE IF activation = "tanh" THEN "Tanh"
    ELSE "None"

SelectNorm(norm) ==
    IF norm = "bn" THEN "BatchNorm3d"
    ELSE IF norm = "in" THEN "InstanceNorm3d"
    ELSE "None"

(* Variant: the convolution is given padding p as well, so the input is   *)
(* padded twice.                                                           *)
Conv_3d_Block_conv_pads(input_channels, output_channels, k_size, s, p, norm, activation, pad_type) ==
    [kind |-> "Conv_3d_Block",
     pad_type |-> pad_type,
     padding |-> p,
     activation |-> SelectActivation(activation),
     norm |-> SelectNorm(norm),
     conv |-> Conv3d(input_channels, output_channels, k_size, s, p)]

Conv_3d_Block(input_channels, output_channels, k_size, s, p, norm, activation, pad_type) ==
    [kind |-> "Conv_3d_Block",
     pad_type |-> pad_type,
     padding |-> p,
     activation |-> SelectActivation(activation),
     norm |-> SelectNorm(norm),
     conv |-> Conv3d(input_channels, output_channels, k_size, s, 0)]

(* self.norm(x): the shape is kept.  InstanceNorm3d takes its statistics   *)
(* over the voxels of one sample and channel and rejects a single voxel;   *)
(* BatchNorm3d of a module in training mode (the mode after construction)  *)
(* rejects a single value per channel.                                     *)
Norm_forward(blk, t) ==
    IF blk.norm = "InstanceNorm3d" /\ t[3] * t[4] * t[5] = 1
    THEN <<"SingleSpatialElement">>
    ELSE IF blk.norm = "BatchNorm3d" /\ t[1] * t[3] * t[4] * t[5] = 1
    THEN <<"SingleValuePerChannel">>
    ELSE t

(* self.activation(x): elementwise, the shape is kept.                     *)
Activation_forward(blk, t) == t

Conv_3d_Block_forward(blk, t) ==
    LET p == blk.padding
        padded == F_pad(t, <<p, p, p, p, p, p>>, blk.pad_type)
    IN  IF IsErr(padded) THEN padded
        ELSE LET c == Conv3d_forward(blk.conv, padded)
             IN  IF IsErr(c) THEN c
                 ELSE LET n == IF blk.norm # "None"
                               THEN Norm_forward(blk, c) ELSE c
                      IN  IF IsErr(n) THEN n
                          ELSE IF blk.activation # "None"
                          THEN Activation_forward(blk, n) ELSE n

(***************************************************************************)
(* ResidualBlock, ResidualBlocks                                           *)
(***************************************************************************)
(* Variant: the first block pads by 2 instead of 1.                        *)
ResidualBlock_pad2(channels, norm, activation, pad_type) ==
    [kind |-> "ResidualBlock",
     model |-> << Conv_3d_Block(channels, channels, 3, 1, 2, norm,
                                activation, pad_type),
                  Conv_3d_Block(channels, channels, 3, 1, 1, norm,
                                "none", pad_type) >>]

ResidualBlock(channels, norm, activation, pad_type) ==
    [kind |-> "ResidualBlock",
     model |-> << Conv_3d_Block(channels, channels, 3, 1, 1, norm,
                                activation, pad_type),
                  Conv_3d_Block(channels, channels, 3, 1, 1, norm,
                                "none", pad_type) >>]

RECURSIVE ResidualBlocks_loop(_, _, _, _, _)
ResidualBlocks_loop(n, channels, norm, activation, pad_type) ==
    IF n <= 0 THEN <<>>
    ELSE <<ResidualBlock(channels, norm, activation, pad_type)>> \o
         ResidualBlocks_loop(n - 1, channels, norm, activation, pad_type)

ResidualBlocks(n_blocks, channels, norm, activation, pad_type) ==
    [kind |-> "ResidualBlocks",
     model |-> ResidualBlocks_loop(n_blocks, channels, norm, activation,
                                   pad_type)]

(***************************************************************************)
(* forward of a layer and of nn.Sequential                                 *)
(***************************************************************************)
RECURSIVE Layer_forward(_, _), Sequential_forward(_, _)

ResidualBlock_forward(blk, t) ==
    LET y == Sequential_forward(blk.model, t)
    IN  IF IsErr(y) THEN y ELSE Add(t, y)

ResidualBlocks_forward(blk, t) == Sequential_forward(blk.model, t)

Layer_forward(l, t) ==
    CASE l.kind = "Conv_3d_Block" -> Conv_3d_Block_forward(l, t)
      [] l.kind = "Conv3d" -> Conv3d_forward(l, t)
      [] l.kind = "AdaptiveAvgPool3d" -> AdaptiveAvgPool3d_forward(l, t)
      [] l.kind = "Upsample" -> Upsample_forward(l, t)
      [] l.kind = "AvgPool3d" -> AvgPool3d_forward(l, t)
      [] l.kind = "ResidualBlock" -> ResidualBlock_forward(l, t)
      [] l.kind = "ResidualBlocks" -> ResidualBlocks_forward(l, t)

Sequential_forward(layers, t) ==
    IF Len(layers) = 0 THEN t
    ELSE LET y == Layer_forward(Head(layers), t)
         IN  IF IsErr(y) THEN y ELSE Sequential_forward(Tail(layers), y)

(***************************************************************************)
(* StyleEncoder                                                            *)
(***************************************************************************)
(* for _ in range(2): append a block bottom_dim -> 2*bottom_dim, then      *)
(* double bottom_dim.  The result carries the layers and the final width.  *)
RECURSIVE StyleEncoder_double(_, _)
StyleEncoder_double(n, bottom_dim) ==
    IF n <= 0 THEN [layers |-> <<>>, bottom_dim |-> bottom_dim]
    ELSE LET rest == StyleEncoder_double(n - 1, 2 * bottom_dim)
         IN  [layers |-> <<Conv_3d_Block(bottom_dim, 2 * bottom_dim, 4, 2, 1,
                                         "none", "relu", "replicate")>>
                         \o rest.layers,
              bottom_dim |-> rest.bottom_dim]

(* for _ in range(n_downsample - 2): append a block bottom_dim ->          *)
(* bottom_dim.                                                             *)
RECURSIVE StyleEncoder_keep(_, _)
StyleEncoder_keep(n, bottom_dim) ==
    IF n <= 0 THEN <<>>
    ELSE <<Conv_3d_Block(bottom_dim, bottom_dim, 4, 2, 1, "none", "relu",
                         "replicate")>>
         \o StyleEncoder_keep(n - 1, bottom_dim)

(* Variant: the global average pool is left out.                           *)
StyleEncoder_no_pool(in_channels, n_downsample, style_dim, bottom_dim) ==
    LET first == <<Conv_3d_Block(in_channels, bottom_dim, 7, 1,
                                 DefaultPadding, "none", "relu",
                                 "replicate")>>
        dbl == StyleEncoder_double(2, bottom_dim)
    IN  first \o dbl.layers
              \o StyleEncoder_keep(n_downsample - 2, dbl.bottom_dim)
              \o <<Conv3d(dbl.bottom_dim, style_dim, 1, 1, 0)>>

StyleEncoder(in_channels, n_downsample, style_dim, bottom_dim) ==
    LET first == <<Conv_3d_Block(in_channels, bottom_dim, 7, 1,
                                 DefaultPadding, "none", "relu",
                                 "replicate")>>
        dbl == StyleEncoder_double(2, bottom_dim)
    IN  first \o dbl.layers
              \o StyleEncoder_keep(n_downsample - 2, dbl.bottom_dim)
              \o <<AdaptiveAvgPool3d(1)>>
              \o <<Conv3d(dbl.bottom_dim, style_dim, 1, 1, 0)>>

(***************************************************************************)
(* ContentEncoder                                                          *)
(***************************************************************************)
RECURSIVE ContentEncoder_down(_, _)
ContentEncoder_down(n, bottom_dim) ==
    IF n <= 0 THEN [layers |-> <<>>, bottom_dim |-> bottom_dim]
    ELSE LET rest == ContentEncoder_down(n - 1, 2 * bottom_dim)
         IN  [layers |-> <<Conv_3d_Block(bottom_dim, 2 * bottom_dim, 4, 2, 1,
                                         "in", "relu", "replicate")>>
                         \o rest.layers,
              bottom_dim |-> rest.bottom_dim]

ContentEncoder(input_channels, n_downsample, bottom_dim, n_res) ==
    LET first == <<Conv_3d_Block(input_channels, bottom_dim, 7, 1,
                                 DefaultPadding, "in", "relu", "replicate")>>
        down == ContentEncoder_down(n_downsample, bottom_dim)
    IN  first \o down.layers
              \o <<ResidualBlocks(n_res, down.bottom_dim, "in", "relu",
                                  "replicate")>>

(***************************************************************************)
(* Decoder                                                                 *)
(***************************************************************************)
RECURSIVE Decoder_up(_, _)
Decoder_up(n, channels) ==
    IF n <= 0 THEN [layers |-> <<>>, channels |-> channels]
    ELSE LET rest == Decoder_up(n - 1, channels \div 2)
         IN  [layers |-> <<Upsample(2),
                           Conv_3d_Block(channels, channels \div 2, 5, 1, 2,
                                         "ln", "relu", "replicate")>>
                         \o rest.layers,
              channels |-> rest.channels]

Decoder(bottom_dim, n_res, n_upsample, style_dim, out_channels) ==
    LET channels == bottom_dim * Pow2(n_upsample)
        res == <<ResidualBlocks(n_res, bottom_dim, "adain", "relu",
                                "replicate")>>
        up == Decoder_up(n_upsample, channels)
    IN  res \o up.layers
            \o <<Conv_3d_Block(up.channels, out_channels, 7, 1,
                               DefaultPadding, "none", "tanh", "replicate")>>

(***************************************************************************)
(* MultiDiscriminator                                                      *)
(***************************************************************************)
RECURSIVE discriminator_block_loop(_, _, _)
discriminator_block_loop(self, n, channels) ==
    IF n <= 0 THEN [layers |-> <<>>, channels |-> channels]
    ELSE LET rest == discriminator_block_loop(self, n - 1, 2 * channels)
         IN  [layers |-> <<Conv_3d_Block(channels, 2 * channels, 4, 2, 1,
                                         self.norm, self.activ,
                                         self.pad_type)>>
                         \o rest.layers,
              channels |-> rest.channels]

(* Variant: the final convolution has no padding.                          *)
discriminator_block_no_pad(self) ==
    LET first == <<Conv_3d_Block(self.in_channels, self.bottom_dim, 4, 2, 1,
                                 "none", self.activ, self.pad_type)>>
        rest == discriminator_block_loop(self, self.n_layer - 1,
                                         self.bottom_dim)
    IN  first \o rest.layers \o <<Conv3d(rest.channels, 1, 3, 1, 0)>>

discriminator_block(self) ==
    LET first == <<Conv_3d_Block(self.in_channels, self.bottom_dim, 4, 2, 1,
                                 "none", self.activ, self.pad_type)>>
        rest == discriminator_block_loop(self, self.n_layer - 1,
                                         self.bottom_dim)
    IN  first \o rest.layers \o <<Conv3d(rest.channels, 1, 3, 1, 1)>>

RECURSIVE MultiDiscriminator_models(_, _)
MultiDiscriminator_models(self, n) ==
    IF n <= 0 THEN <<>>
    ELSE <<discriminator_block(self)>> \o
         MultiDiscriminator_models(self, n - 1)

(* The fields __init__ sets; models is kept in the variable model.         *)
MultiDiscriminator(params, in_channels) ==
    [in_channels |-> in_channels,
     n_layer |-> params.n_layer,
     bottom_dim |-> params.bottom_dim,
     norm |-> params.norm,
     activ |-> params.activ,
     num_scales |-> params.num_scales,
     pad_type |-> params.pad_type,
     downsample |-> AvgPool3d(3, 2, 1)]

(***************************************************************************)
(* State machine: a module is constructed, then called on an input.        *)
(***************************************************************************)
Init ==
    /\ pc = "new"
    /\ comp = "none"
    /\ args = <<>>
    /\ model = <<>>
    /\ x = <<>>
    /\ x0 = <<>>
    /\ idx = 0
    /\ error = "none"
    /\ outputs = <<>>
    /\ stdout = <<>>
    /\ events = <<>>
    /\ chain = <<>>

Constructed(name, a, m) ==
    /\ pc = "new"
    /\ pc' = "ready"
    /\ comp' = name
    /\ args' = a
    /\ model' = m
    /\ UNCHANGED <<x, x0, idx, error, outputs, stdout, events, chain>>

New_Conv_3d_Block ==
    \E oc \in BottomDims, k \in KernelSizes, s \in 1..MaxStride,
       p \in 0..MaxPad, f \in Flavours :
        Constructed("Conv_3d_Block",
                    [input_channels |-> DefaultInChannels,
                     output_channels |-> oc, k_size |-> k, s |-> s, p |-> p,
                     norm |-> f[1], activation |-> f[2], pad_type |-> f[3]],
                    <<Conv_3d_Block(DefaultInChannels, oc, k, s, p, f[1],
                                    f[2], f[3])>>)

New_ResidualBlock ==
    \E c \in ChannelCounts, norm \in {"in", "adain"} :
        Constructed("ResidualBlock",
                    [channels |-> c, norm |-> norm, activation |-> "relu",
                     pad_type |-> "replicate"],
                    <<ResidualBlock(c, norm, "relu", "replicate")>>)

New_ResidualBlocks ==
    \E n \in 0..MaxBlocks, c \in ChannelCounts, norm \in {"in", "adain"} :
        Constructed("ResidualBlocks",
                    [n_blocks |-> n, channels |-> c, norm |-> norm,
                     activation |-> "relu", pad_type |-> "replicate"],
                    ResidualBlocks(n, c, norm, "relu", "replicate").model)

New_StyleEncoder ==
    \E n \in 0..MaxDown, b \in BottomDims :
        Constructed("StyleEncoder",
                    [in_channels |-> DefaultInChannels, n_downsample |-> n,
                     style_dim |-> DefaultStyleDim, bottom_dim |-> b],
                    StyleEncoder(DefaultInChannels, n, DefaultStyleDim, b))

New_ContentEncoder ==
    \E n \in 0..MaxUp, b \in BottomDims, r \in 0..MaxBlocks :
        Constructed("ContentEncoder",
                    [input_channels |-> DefaultInChannels,
                     n_downsample |-> n, bottom_dim |-> b, n_res |-> r],
                    ContentEncoder(DefaultInChannels, n, b, r))

New_Decoder ==
    \E n \in 0..MaxUp, b \in BottomDims, r \in 0..MaxBlocks :
        Constructed("Decoder",
                    [bottom_dim |-> b, n_res |-> r, n_upsample |-> n,
                     style_dim |-> DefaultStyleDim,
                     out_channels |-> DefaultOutChannels],
                    Decoder(b, r, n, DefaultStyleDim, DefaultOutChannels))

New_MultiDiscriminator ==
    \E n \in 0..MaxLayers, b \in {DiscriminatorBottomDim}, k \in 0..MaxScales :
        LET params == [n_layer |-> n, activ |-> "lrelu", num_scales |-> k,
                       pad_type |-> "replicate", norm |-> "in",
                       bottom_dim |-> b]
            self == MultiDiscriminator(params, DefaultInChannels)
        IN  Constructed("MultiDiscriminator", self,
                        MultiDiscriminator_models(self, params.num_scales))

(* The caller passes an input tensor to forward.                           *)
Call ==
    /\ pc = "ready"
    /\ \E t \in InputShapes :
          /\ x' = t
          /\ x0' = t
    /\ idx' = 1
    /\ pc' = IF comp = "MultiDiscriminator" THEN "md_loop" ELSE "forward"
    /\ UNCHANGED <<comp, args, model, error, outputs, stdout, events, chain>>

(* nn.Sequential applies the next layer of the module.                     *)
Sequential_step ==
    /\ pc = "forward"
    /\ idx <= Len(model)
    /\ LET y == Layer_forward(model[idx], x)
       IN  IF IsErr(y)
           THEN /\ pc' = "error"
                /\ error' = y[1]
                /\ UNCHANGED <<x, idx>>
           ELSE /\ x' = y
                /\ idx' = idx + 1
                /\ UNCHANGED <<pc, error>>
    /\ UNCHANGED <<comp, args, model, x0, outputs, stdout, events, chain>>

Sequential_return ==
    /\ pc = "forward"
    /\ idx > Len(model)
    /\ pc' = "done"
    /\ UNCHANGED <<comp, args, model, x, x0, idx, error, outputs, stdout,
                   events, chain>>

(* MultiDiscriminator.forward: outputs.append(model(x))                    *)
MD_tower ==
    /\ pc = "md_loop"
    /\ idx <= Len(model)
    /\ LET y == Sequential_forward(model[idx], x)
       IN  IF IsErr(y)
           THEN /\ pc' = "error"
                /\ error' = y[1]
                /\ UNCHANGED <<outputs, events>>
           ELSE /\ outputs' = Append(outputs, y)
                /\ events' = Append(events, <<"tower", idx, x>>)
                /\ pc' = "md_print"
                /\ UNCHANGED error
    /\ UNCHANGED <<comp, args, model, x, x0, idx, stdout, chain>>

(* MultiDiscriminator.forward: print(outputs[-1].shape, x.shape)           *)
MD_print ==
    /\ pc = "md_print"
    /\ stdout' = Append(stdout, <<outputs[Len(outputs)], x>>)
    /\ pc' = "md_down"
    /\ UNCHANGED <<comp, args, model, x, x0, idx, error, outputs, events,
                   chain>>

(* Variant: the tower's output is downsampled instead of the running      *)
(* input.                                                                  *)
MD_downsample_output ==
    /\ pc = "md_down"
    /\ LET o == outputs[Len(outputs)]
           y == AvgPool3d_forward(args.downsample, o)
       IN  IF IsErr(y)
           THEN /\ pc' = "error"
                /\ error' = y[1]
                /\ UNCHANGED <<x, idx, events>>
           ELSE /\ x' = y
                /\ idx' = idx + 1
                /\ events' = Append(events, <<"downsample", idx, o>>)
                /\ pc' = "md_loop"
                /\ UNCHANGED error
    /\ UNCHANGED <<comp, args, model, x0, outputs, stdout, chain>>

(* MultiDiscriminator.forward: x = self.downsample(x)                      *)
MD_downsample ==
    /\ pc = "md_down"
    /\ LET y == AvgPool3d_forward(args.downsample, x)
       IN  IF IsErr(y)
           THEN /\ pc' = "error"
                /\ error' = y[1]
                /\ UNCHANGED <<x, idx, events>>
           ELSE /\ x' = y
                /\ idx' = idx + 1
                /\ events' = Append(events, <<"downsample", idx, x>>)
                /\ pc' = "md_loop"
                /\ UNCHANGED error
    /\ UNCHANGED <<comp, args, model, x0, outputs, stdout, chain>>

(* MultiDiscriminator.forward: return outputs                              *)
MD_return ==
    /\ pc = "md_loop"
    /\ idx > Len(model)
    /\ pc' = "done"
    /\ UNCHANGED <<comp, args, model, x, x0, idx, error, outputs, stdout,
                   events, chain>>

(* The content features a ContentEncoder returned are passed to a Decoder  *)
(* built with the encoder's bottom_dim and as many upsampling stages as    *)
(* the encoder has downsampling stages.                                    *)
Feed_Decoder ==
    /\ pc = "done"
    /\ comp = "ContentEncoder"
    /\ \E r \in 0..MaxBlocks :
          /\ args' = [bottom_dim |-> args.bottom_dim, n_res |-> r,
                      n_upsample |-> args.n_downsample,
                      style_dim |-> DefaultStyleDim,
                      out_channels |-> DefaultOutChannels]
          /\ model' = Decoder(args.bottom_dim, r, args.n_downsample,
                              DefaultStyleDim, DefaultOutChannels)
    /\ comp' = "Decoder"
    /\ chain' = <<x0>>
    /\ x0' = x
    /\ idx' = 1
    /\ pc' = "forward"
    /\ UNCHANGED <<x, error, outputs, stdout, events>>

Next ==
    \/ New_Conv_3d_Block
    \/ New_ResidualBlock
    \/ New_ResidualBlocks
    \/ New_StyleEncoder
    \/ New_ContentEncoder
    \/ New_Decoder
    \/ New_MultiDiscriminator
    \/ Call
    \/ Sequential_step
    \/ Sequential_return
    \/ MD_tower
    \/ MD_print
    \/ MD_downsample
    \/ MD_return
    \/ Feed_Decoder

Spec == Init /\ [][Next]_vars

(***************************************************************************)
(* Helpers of the properties.                                              *)
(***************************************************************************)
Finished == pc \in {"done", "error"}

(* n halved (rounding down) k times.                                       *)
RECURSIVE Halved(_, _)
Halved(n, k) == IF k <= 0 THEN n ELSE Halved(n \div 2, k - 1)

CeilDiv(n, d) == (n + d - 1) \div d

(* The Conv_3d_Blocks of a layer list, those of nested modules included.   *)
RECURSIVE BlocksOf(_)
BlocksOf(layers) ==
    IF Len(layers) = 0 THEN <<>>
    ELSE LET l == Head(layers)
             here == IF l.kind = "Conv_3d_Block" THEN <<l>>
                     ELSE IF l.kind \in {"ResidualBlock", "ResidualBlocks"}
                          THEN BlocksOf(l.model)
                          ELSE <<>>
         IN  here \o BlocksOf(Tail(layers))

(* The channel count a layer list hands on when given c channels, or -1   *)
(* when some layer is configured for another input channel count.          *)
RECURSIVE ChannelsThrough(_, _)
ChannelsThrough(layers, c) ==
    IF Len(layers) = 0 \/ c = -1 THEN c
    ELSE LET l == Head(layers)
             out == IF l.kind = "Conv_3d_Block"
                    THEN (IF l.conv.in_channels = c
                          THEN l.conv.out_channels ELSE -1)
                    ELSE IF l.kind = "Conv3d"
                    THEN (IF l.in_channels = c THEN l.out_channels ELSE -1)
                    ELSE IF l.kind = "ResidualBlocks"
                    THEN ChannelsThrough(l.model, c)
                    ELSE IF l.kind = "ResidualBlock"
                    THEN (IF ChannelsThrough(l.model, c) = c THEN c ELSE -1)
                    ELSE c
         IN  ChannelsThrough(Tail(layers), out)

(* The input channel count a component is declared to take.                *)
DeclaredIn ==
    CASE comp = "Conv_3d_Block" -> args.input_channels
      [] comp = "ResidualBlock" -> args.channels
      [] comp = "ResidualBlocks" -> args.channels
      [] comp = "StyleEncoder" -> args.in_channels
      [] comp = "ContentEncoder" -> args.input_channels
      [] comp = "MultiDiscriminator" -> args.in_channels
      [] comp = "Decoder" -> args.bottom_dim * Pow2(args.n_upsample)
      [] OTHER -> 0

(***************************************************************************)
(* Properties.                                                             *)
(***************************************************************************)
ConvBlockOut(n) == ((n + 2 * args.p - args.k_size) \div args.s) + 1

(* C1: when Conv_3d_Block.forward returns, the result has output_channels  *)
(* channels and, on each of the three spatial axes, size                   *)
(* floor((in + 2*p - k)/s) + 1; the batch size is kept.                    *)
C1_ConvBlockShape ==
    (comp = "Conv_3d_Block" /\ pc = "done") =>
        x = <<x0[1], args.output_channels, ConvBlockOut(x0[3]),
              ConvBlockOut(x0[4]), ConvBlockOut(x0[5])>>

C1_Witness ==
    /\ comp = "Conv_3d_Block" /\ pc = "done"
    /\ args.k_size = 4 /\ args.s = 2 /\ args.p = 1
    /\ x0[3] = 5 /\ x0[4] = 16
    /\ x = <<x0[1], args.output_channels, 2, 8, 2>>

C3_StyleEncoderAnySize ==
    (comp = "StyleEncoder" /\ x0 # <<>> /\ x0[2] = args.in_channels) =>
        /\ pc # "error"
        /\ pc = "done" => x = <<x0[1], args.style_dim, 1, 1, 1>>

StyleEncoderMinSize == Pow2(Max(args.n_downsample, 2))

(* C3 amended: StyleEncoder.forward succeeds and returns                   *)
(* (B, style_dim, 1, 1, 1) on every input whose D, H and W are each at     *)
(* least 2^max(n_downsample, 2).                                           *)
C3_StyleEncoderLargeEnough ==
    (/\ comp = "StyleEncoder" /\ x0 # <<>> /\ x0[2] = args.in_channels
     /\ \A a \in 3..5 : x0[a] >= StyleEncoderMinSize) =>
        /\ pc # "error"
        /\ pc = "done" => x = <<x0[1], args.style_dim, 1, 1, 1>>

C3_Witness ==
    /\ comp = "StyleEncoder" /\ pc = "done"
    /\ args.n_downsample = 4 /\ args.bottom_dim = 32
    /\ x0 = <<1, 14, 48, 16, 48>>
    /\ x = <<1, 8, 1, 1, 1>>

(* C4: a Decoder fed the output of a ContentEncoder with the same          *)
(* bottom_dim and as many stages succeeds and returns out_channels         *)
(* channels with the spatial size of the encoder's input.                  *)
C4_RoundTrip ==
    (comp = "Decoder" /\ chain # <<>>) =>
        /\ pc # "error"
        /\ pc = "done" =>
              /\ x[2] = args.out_channels
              /\ Spatial(x) = Spatial(chain[1])

(* C5: forward returns num_scales outputs; tower i runs on the input after *)
(* i average-pool downsamplings of the original input (each rounds the     *)
(* size up to half); towers and downsamplings alternate, tower first, and  *)
(* each downsampling is applied to the input its tower was given.          *)
C5_ScalesInOrder ==
    comp = "MultiDiscriminator" =>
        /\ pc = "done" => Len(outputs) = args.num_scales
        /\ \A j \in 1..Len(events) :
              /\ events[j][2] = (j + 1) \div 2
              /\ events[j][1] = IF j % 2 = 1 THEN "tower" ELSE "downsample"
              /\ LET k == Pow2(events[j][2] - 1)
                 IN  events[j][3] = <<x0[1], x0[2], CeilDiv(x0[3], k),
                                      CeilDiv(x0[4], k), CeilDiv(x0[5], k)>>
        /\ Len(outputs) = (Len(events) + 1) \div 2
        /\ \A i \in 1..Len(outputs) :
              outputs[i] = Sequential_forward(model[i], events[2 * i - 1][3])

C5_Witness ==
    /\ comp = "MultiDiscriminator" /\ pc = "done"
    /\ args.num_scales = 3 /\ args.n_layer = 1
    /\ x0 = <<1, 14, 5, 48, 5>>
    /\ Len(outputs) = 3
    /\ events[5] = <<"tower", 3, <<1, 14, 2, 12, 2>> >>

(* C6: a tower of n_layer >= 1 stride-2 blocks and the final convolution   *)
(* maps spatial size S to a one-channel map of size S halved n_layer       *)
(* times; n_layer = 4, bottom_dim = 32, num_scales = 1 on (1,14,48,48,48)  *)
(* gives the single output (1,1,3,3,3).                                    *)
C6_TowerHalves ==
    (comp = "MultiDiscriminator" /\ args.n_layer >= 1) =>
        /\ \A i \in 1..Len(outputs) :
              LET t == events[2 * i - 1][3]
              IN  outputs[i] = <<t[1], 1, Halved(t[3], args.n_layer),
                                 Halved(t[4], args.n_layer),
                                 Halved(t[5], args.n_layer)>>
        /\ (/\ args.n_layer = 4 /\ args.bottom_dim = 32
            /\ args.num_scales = 1 /\ x0 = <<1, 14, 48, 48, 48>>) =>
              /\ pc # "error"
              /\ pc = "done" => outputs = << <<1, 1, 3, 3, 3>> >>

C6_Witness ==
    /\ comp = "MultiDiscriminator" /\ pc = "done"
    /\ args.n_layer = 4 /\ args.bottom_dim = 32 /\ args.num_scales = 1
    /\ x0 = <<1, 14, 48, 48, 48>>
    /\ outputs = << <<1, 1, 3, 3, 3>> >>

(* C7: no Conv_3d_Block exists that was constructed with an unrecognized   *)
(* normalization kind, activation kind or padding mode.                    *)
C7_UnrecognizedKindRejected ==
    (comp = "Conv_3d_Block" /\ pc # "new") =>
        /\ args.norm \in {"none", "bn", "in"}
        /\ args.activation \in {"none", "relu", "lrelu", "prelu", "selu",
                                 "tanh"}
        /\ args.pad_type \in PadModes

(* C8: MultiDiscriminator.forward writes nothing to the output stream.     *)
C8_NoPrint == stdout = <<>>

(* C9: in a Decoder every block of the residual stack and of the           *)
(* upsampling stages has a normalization step and only the last block has  *)
(* none; no block of a StyleEncoder has one; every block of a              *)
(* ContentEncoder has instance normalization.                              *)
C9_NormalizationPlacement ==
    LET blocks == BlocksOf(model)
    IN  /\ comp = "Decoder" =>
              \A i \in 1..Len(blocks) :
                  (blocks[i].norm = "None") <=> (i = Len(blocks))
        /\ comp = "StyleEncoder" =>
              \A i \in 1..Len(blocks) : blocks[i].norm = "None"
        /\ comp = "ContentEncoder" =>
              \A i \in 1..Len(blocks) : blocks[i].norm = "InstanceNorm3d"

(* C10: in every constructed component each layer is configured for the    *)
(* channel count the layer before it hands on, starting from the declared  *)
(* input channel count, so a forward pass on such an input meets no        *)
(* channel mismatch.                                                       *)
C10_ChannelsChain ==
    /\ (pc # "new" /\ comp # "MultiDiscriminator") =>
          ChannelsThrough(model, DeclaredIn) # -1
    /\ (pc # "new" /\ comp = "MultiDiscriminator") =>
          \A i \in 1..Len(model) : ChannelsThrough(model[i], DeclaredIn) # -1
    /\ (x0 # <<>> /\ chain = <<>> /\ x0[2] = DeclaredIn) =>
          error # "ChannelMismatch"

====
